---------------------------- MODULE Spec2Model ----------------------------
(***************************************************************************)
(* A model of the restaurant back end of markn5l/pro7:                     *)
(*   - FirebaseService (src/unnamed/part_000): menu items, the order       *)
(*     approval workflow, department records, table bills, menu stats;     *)
(*   - TelegramService (src/src/services/telegram.ts): notifications.      *)
(*                                                                         *)
(* The document store is modelled as one sequence per collection; the id   *)
(* of a document is its position (ids are generated, unique and never      *)
(* reused; no operation of the source deletes from these collections).     *)
(* The pendingOrders collection is the set of the ids that exist.          *)
(* Every await of a store call is one step; a store call either succeeds   *)
(* or rejects, and a rejection leaves the store as it was.                 *)
(*                                                                         *)
(* JavaScript values: a record is an object, a key that is not in the      *)
(* record's DOMAIN is an absent key, and the strings "undefined" and       *)
(* "null" stand for the values undefined and null.                         *)
(* A JavaScript number that holds an amount of money is an IEEE 754 double, *)
(* modelled bit for bit: [m, e] stands for m * 2^e, with m a natural number *)
(* of exactly 53 bits (or zero) written as its digits in base 2^15, least   *)
(* significant first. Sums and products round to nearest, ties to even, as  *)
(* the hardware does; amounts stay far from overflow and from subnormals.   *)
(***************************************************************************)
EXTENDS Integers, Sequences, FiniteSets, TLC

VARIABLES
    menuItems,      \* collection 'menuItems': sequence of document data
    orders,         \* collection 'orders'
    kitchenOrders,  \* collection 'kitchenOrders'
    barOrders,      \* collection 'barOrders'
    tableBills,     \* collection 'tableBills'
    pendingOrders,  \* collection 'pendingOrders': the ids that exist
    proc,           \* each caller's position in the operation it runs
    calls,          \* number of operations invoked so far
    billMerges,     \* history: successful bill writes per pending order
    menuOut,        \* last outcome of addMenuItem / getMenuItems
    stats,          \* last outcome of getMenuStats
    tg              \* the notification service's running operation

storeVars == <<menuItems, orders, kitchenOrders, barOrders, tableBills, pendingOrders>>
vars == <<menuItems, orders, kitchenOrders, barOrders, tableBills, pendingOrders,
          proc, calls, billMerges, menuOut, stats, tg>>

----------------------------------------------------------------------------
(* Bounds *)

MaxCalls == 2        \* operations invoked in one run of the ledger
MaxMenuCalls == 3    \* operations invoked in one run of the menu model
MaxTgItems == 2      \* items of an order handed to the notification service
MaxStatDocs == 2     \* documents of each collection when getMenuStats runs
MaxStatCalls == 2    \* operations invoked in one run of the stats model

Procs == {"c1", "c2"}
Owners == {"u1", "u2"}
MenuIds == {1, 2}                        \* the ids of the menu documents
MissingId == Cardinality(MenuIds) + 1    \* an item id that names no menu item

(* Program constants *)
PopularLimit == 5
RecentLimit == 10
MonthsLimit == 6

----------------------------------------------------------------------------
(* JavaScript helpers *)

Falsy == {"undefined", "null", ""}

\* a || b on the value of obj[key], an absent key reading as undefined
OrDefault(obj, key, default) ==
    IF key \in DOMAIN obj /\ obj[key] \notin Falsy THEN obj[key] ELSE default

\* { ...a, ...b }: the keys of b override those of a
Spread(a, b) ==
    [k \in DOMAIN a \cup DOMAIN b |-> IF k \in DOMAIN b THEN b[k] ELSE a[k]]

\* obj?.key === value, with obj possibly undefined (the empty sequence)
OptEq(found, key, value) ==
    /\ found # <<>>
    /\ key \in DOMAIN found[1]
    /\ found[1][key] = value

Min(a, b) == IF a < b THEN a ELSE b

----------------------------------------------------------------------------
(* Natural numbers of any size: the digits in base 2^15, least significant *)
(* first, without leading zeros; zero is the empty sequence.               *)

LimbBits == 15
Base == 2^LimbBits

RECURSIVE BigNorm(_)
BigNorm(a) ==
    IF a = <<>> THEN <<>>
    ELSE IF a[Len(a)] = 0 THEN BigNorm(SubSeq(a, 1, Len(a) - 1))
    ELSE a

RECURSIVE BigOfInt(_)
BigOfInt(n) == IF n = 0 THEN <<>> ELSE <<n % Base>> \o BigOfInt(n \div Base)

RECURSIVE BigAddCarry(_, _, _)
BigAddCarry(a, b, carry) ==
    IF a = <<>> /\ b = <<>> THEN (IF carry = 0 THEN <<>> ELSE <<carry>>)
    ELSE LET x == IF a = <<>> THEN 0 ELSE Head(a)
             y == IF b = <<>> THEN 0 ELSE Head(b)
             ta == IF a = <<>> THEN <<>> ELSE Tail(a)
             tb == IF b = <<>> THEN <<>> ELSE Tail(b)
         IN  <<(x + y + carry) % Base>> \o BigAddCarry(ta, tb, (x + y + carry) \div Base)

BigAdd(a, b) == BigAddCarry(a, b, 0)

\* a * s for a digit s
RECURSIVE BigMulDigit(_, _, _)
BigMulDigit(a, s, carry) ==
    IF a = <<>> THEN (IF carry = 0 THEN <<>> ELSE <<carry>>)
    ELSE <<(Head(a) * s + carry) % Base>>
         \o BigMulDigit(Tail(a), s, (Head(a) * s + carry) \div Base)

RECURSIVE BigMul(_, _)
BigMul(a, b) ==
    IF b = <<>> \/ a = <<>> THEN <<>>
    ELSE BigNorm(BigAdd(BigMulDigit(a, Head(b), 0),
                        IF Tail(b) = <<>> THEN <<>> ELSE <<0>> \o BigMul(a, Tail(b))))

\* a * 2^k
BigShl(a, k) ==
    IF a = <<>> THEN <<>>
    ELSE [i \in 1..(k \div LimbBits) |-> 0] \o BigMulDigit(a, 2^(k % LimbBits), 0)

\* a \div 2^r for r below the digit size
RECURSIVE BigShrBits(_, _)
BigShrBits(a, r) ==
    IF a = <<>> THEN <<>>
    ELSE <<(Head(a) \div 2^r)
           + (IF Tail(a) = <<>> THEN 0 ELSE (a[2] % 2^r) * 2^(LimbBits - r))>>
         \o BigShrBits(Tail(a), r)

\* a \div 2^k
BigShr(a, k) ==
    IF k \div LimbBits >= Len(a) THEN <<>>
    ELSE BigNorm(BigShrBits(SubSeq(a, (k \div LimbBits) + 1, Len(a)), k % LimbBits))

RECURSIVE IntBitLen(_)
IntBitLen(n) == IF n = 0 THEN 0 ELSE 1 + IntBitLen(n \div 2)

BigBitLen(a) ==
    IF a = <<>> THEN 0 ELSE LimbBits * (Len(a) - 1) + IntBitLen(a[Len(a)])

\* bit i of a (bit 0 is the least significant)
BigTestBit(a, i) ==
    /\ i \div LimbBits < Len(a)
    /\ (a[(i \div LimbBits) + 1] \div 2^(i % LimbBits)) % 2 = 1

\* some bit of a below bit i is set
BigAnyBelow(a, i) ==
    \/ \E j \in 1..Min(i \div LimbBits, Len(a)) : a[j] # 0
    \/ /\ i \div LimbBits < Len(a)
       /\ a[(i \div LimbBits) + 1] % 2^(i % LimbBits) # 0

\* long division of a by a digit d, from the most significant digit: the
\* quotient's digits, most significant first, and the remainder
RECURSIVE BigDivDigitFrom(_, _, _, _)
BigDivDigitFrom(a, i, d, rem) ==
    IF i = 0 THEN [q |-> <<>>, r |-> rem]
    ELSE LET cur == rem * Base + a[i]
             rest == BigDivDigitFrom(a, i - 1, d, cur % d)
         IN  [q |-> <<cur \div d>> \o rest.q, r |-> rest.r]

Reverse(list) == [i \in 1..Len(list) |-> list[Len(list) + 1 - i]]

BigDivDigit(a, d) ==
    LET res == BigDivDigitFrom(a, Len(a), d, 0)
    IN  [q |-> BigNorm(Reverse(res.q)), r |-> res.r]

----------------------------------------------------------------------------
(* IEEE 754 doubles (non-negative, normal) *)

MantBits == 53

DZero == [m |-> <<>>, e |-> 0]

\* the double nearest to n * 2^e, ties to even
RoundToDouble(n, e) ==
    IF n = <<>> THEN DZero
    ELSE IF BigBitLen(n) <= MantBits
         THEN [m |-> BigShl(n, MantBits - BigBitLen(n)),
               e |-> e - (MantBits - BigBitLen(n))]
         ELSE LET k == BigBitLen(n) - MantBits
                  q == BigShr(n, k)
                  up == /\ BigTestBit(n, k - 1)
                        /\ (BigAnyBelow(n, k - 1) \/ BigTestBit(n, k))
                  q2 == IF up THEN BigNorm(BigAdd(q, <<1>>)) ELSE q
              IN  IF BigBitLen(q2) > MantBits
                  THEN [m |-> BigShr(q2, 1), e |-> e + k + 1]
                  ELSE [m |-> q2, e |-> e + k]

\* a + b
DAdd(a, b) ==
    IF a.m = <<>> THEN b
    ELSE IF b.m = <<>> THEN a
    ELSE RoundToDouble(BigAdd(BigShl(a.m, a.e - Min(a.e, b.e)),
                              BigShl(b.m, b.e - Min(a.e, b.e))),
                       Min(a.e, b.e))

\* a * b
DMul(a, b) ==
    IF a.m = <<>> \/ b.m = <<>> THEN DZero
    ELSE RoundToDouble(BigMul(a.m, b.m), a.e + b.e)

\* the double a decimal literal num/den denotes (den a power of ten below
\* 2^15): the quotient to 56 bits or more, with a sticky bit for the rest
Dec(num, den) ==
    LET d == BigDivDigit(BigShl(BigOfInt(num), 70), den)
    IN  RoundToDouble(BigAdd(BigShl(d.q, 1), IF d.r = 0 THEN <<>> ELSE <<1>>), 0 - 71)

\* items.reduce((sum, item) => sum + item.total, 0)
RECURSIVE SumTotalsFrom(_, _)
SumTotalsFrom(sum, items) ==
    IF items = <<>> THEN sum
    ELSE SumTotalsFrom(DAdd(sum, Head(items).total), Tail(items))

SumTotals(items) == SumTotalsFrom(DZero, items)


----------------------------------------------------------------------------
(* Inputs of the ledger *)

\* an order item; total is a decimal amount num/den
Item(id, quantity, num, den) ==
    [id |-> id, quantity |-> quantity, total |-> Dec(num, den)]

\* The pending orders the callers hold. po1 has an item the menu does not
\* know; both orders are for the same table of the same owner.
PendingData ==
    [pid \in {"po1", "po2"} |->
        IF pid = "po1"
        THEN [id |-> "po1", userId |-> "u1", tableNumber |-> "t1",
              items |-> <<Item(MissingId, 1, 20, 1), Item(1, 2, 40, 1), Item(2, 1, 20, 1)>>,
              totalAmount |-> Dec(80, 1)]
        ELSE [id |-> "po2", userId |-> "u1", tableNumber |-> "t1",
              items |-> <<Item(2, 3, 60, 1)>>,
              totalAmount |-> Dec(60, 1)]]

PendingIds == DOMAIN PendingData

\* The item lists a caller hands to addToTableBill directly
DirectItems == {<<Item(1, 1, 549, 100)>>}

\* The menuItems collection when a run begins: the documents with ids 1 and
\* 2. Between them the menus tag an item kitchen, bar or not at all, and
\* hold an item of another owner.
InitialMenus ==
    {<<[userId |-> "u1", department |-> "kitchen"],
       [userId |-> "u1", department |-> "bar"]>>,
     <<[userId |-> "u1", department |-> "bar"],
       [userId |-> "u2", department |-> "bar"]>>,
     <<[userId |-> "u1"],
       [userId |-> "u1", department |-> "kitchen"]>>}

----------------------------------------------------------------------------
(* FirebaseService: pure parts *)

\* getDocs(query(collection, where('userId', '==', userId))): the ids of
\* the matching documents, in the order of the collection
RECURSIVE QueryByUser(_, _, _)
QueryByUser(coll, userId, i) ==
    IF i > Len(coll) THEN <<>>
    ELSE (IF coll[i].userId = userId THEN <<i>> ELSE <<>>)
         \o QueryByUser(coll, userId, i + 1)

\* getMenuItems, line 23-27: { id: doc.id, department: data.department ||
\* 'kitchen', ...data }
MenuItemOf(docId, data) ==
    Spread([id |-> docId, department |-> OrDefault(data, "department", "kitchen")],
           data)

getMenuItems(coll, userId) ==
    LET ids == QueryByUser(coll, userId, 1)
    IN  [k \in 1..Len(ids) |-> MenuItemOf(ids[k], coll[ids[k]])]

\* addMenuItem, line 36-40: the data handed to addDoc (created_at left out)
NewMenuItemData(item) ==
    Spread([department |-> OrDefault(item, "department", "kitchen")], item)

\* Array.prototype.find: the first match as a one-element sequence, or <<>>
RECURSIVE FindById(_, _)
FindById(list, id) ==
    IF list = <<>> THEN <<>>
    ELSE IF Head(list).id = id THEN <<Head(list)>>
    ELSE FindById(Tail(list), id)

\* a split that sends the items the menu does not know to the bar
MutDepartmentOfItem(item, menu) ==
    IF FindById(menu, item.id) = <<>> THEN "bar"
    ELSE IF OptEq(FindById(menu, item.id), "department", "bar") THEN "bar" ELSE "kitchen"

\* the department splitItemsByDepartment pushes one item to (line 90-91)
DepartmentOfItem(item, menu) ==
    IF OptEq(FindById(menu, item.id), "department", "bar") THEN "bar" ELSE "kitchen"

RECURSIVE splitItemsByDepartment(_, _)
splitItemsByDepartment(items, menu) ==
    IF items = <<>> THEN [kitchenItems |-> <<>>, barItems |-> <<>>]
    ELSE LET rest == splitItemsByDepartment(Tail(items), menu)
             it == Head(items)
         IN  IF DepartmentOfItem(it, menu) = "bar"
             THEN [kitchenItems |-> rest.kitchenItems,
                   barItems |-> <<it>> \o rest.barItems]
             ELSE [kitchenItems |-> <<it>> \o rest.kitchenItems,
                   barItems |-> rest.barItems]

\* approvePendingOrder, line 54-59, and addOrder, line 159-162
ApprovedOrder(pendingOrder) ==
    Spread(pendingOrder, [status |-> "approved", paymentStatus |-> "pending"])

\* sendToDepartment, line 103-110
DepartmentRecord(orderId, userId, items, department) ==
    [orderId |-> orderId, userId |-> userId, items |-> items,
     status |-> "pending", department |-> department]

\* the literal 0.15 of line 195
TaxRate == Dec(15, 100)

\* addToTableBill, line 195
Tax(subtotal) == DMul(subtotal, TaxRate)

\* addToTableBill, line 207-217: the bill created when none is active
NewBill(userId, tableNumber, items) ==
    [userId |-> userId, tableNumber |-> tableNumber, items |-> items,
     subtotal |-> SumTotals(items),
     tax |-> Tax(SumTotals(items)),
     total |-> DAdd(SumTotals(items), Tax(SumTotals(items))),
     status |-> "active"]

\* addToTableBill, line 194-196 and 199-205: the fields updateDoc writes,
\* computed from the bill that was read
BillUpdate(existingBill, items) ==
    [items |-> existingBill.items \o items,
     subtotal |-> DAdd(existingBill.subtotal, SumTotals(items)),
     tax |-> DAdd(existingBill.tax, Tax(SumTotals(items))),
     total |-> DAdd(existingBill.total,
                    DAdd(SumTotals(items), Tax(SumTotals(items))))]

\* an update computed from the stored bill, as a transaction would
MutUpdateTableBill(bills, existingBill, items) ==
    [bills EXCEPT ![existingBill.id] =
        Spread(@, BillUpdate(Spread(@, [id |-> existingBill.id]), items))]

\* updateDoc(doc(db, 'tableBills', existingBill.id), fields), line 199: a
\* partial merge into the stored document
UpdateTableBill(bills, existingBill, items) ==
    [bills EXCEPT ![existingBill.id] = Spread(@, BillUpdate(existingBill, items))]

\* getTableBill, line 227-233: the ids of the active bills of (owner, table)
ActiveBillIds(bills, userId, tableNumber) ==
    {i \in DOMAIN bills :
        /\ bills[i].userId = userId
        /\ bills[i].tableNumber = tableNumber
        /\ bills[i].status = "active"}

\* getTableBill, line 235-238: { id: doc.id, ...data }
TableBillOf(docId, data) == Spread([id |-> docId], data)

----------------------------------------------------------------------------
(* FirebaseService: the operations, one step per awaited store call.       *)
(* Timestamps (Timestamp.now()) are left out of the ledger's documents.    *)

\* The tableBills collection when a run begins: empty, or the bill an
\* earlier addToTableBill created for the table
InitialBills == {<<>>, <<NewBill("u1", "t1", <<Item(1, 1, 1999, 100)>>)>>}

\* no operation of the menu model has run
NoOutcome == [op |-> "none"]

\* no getMenuStats is running or has run
StatsIdle ==
    [pc |-> "idle", userId |-> "none",
     ordersRead |-> [state |-> "pending", docs |-> <<>>],
     menuRead |-> [state |-> "pending", docs |-> <<>>],
     status |-> "none",
     value |-> [totalOrders |-> 0, totalRevenue |-> DZero, totalViews |-> 0,
                popularItems |-> <<>>, recentOrders |-> <<>>,
                monthlyRevenue |-> <<>>]]

TgIdle == [pc |-> "idle", op |-> "none", arg |-> <<>>, todo |-> <<>>,
           outbox |-> <<>>, results |-> <<>>, result |-> "none"]

IdleProc ==
    [pc |-> "idle", op |-> "none", pendingOrderId |-> "none",
     userId |-> "none", tableNumber |-> "none", items |-> <<>>,
     orderId |-> 0, kitchenItems |-> <<>>, barItems |-> <<>>,
     existingBill |-> <<>>, department |-> "none", found |-> 0,
     failedAt |-> "none"]

\* the positions at which a caller is between two operations
Resting == {"idle", "done", "failed"}

\* the step of approvePendingOrder that follows the split (line 67-75)
AfterSplit(split) ==
    IF split.kitchenItems # <<>> THEN "sendKitchen"
    ELSE IF split.barItems # <<>> THEN "sendBar"
    ELSE "getTableBill"

\* a caller invokes approvePendingOrder(pendingOrderId, pendingOrder) with a
\* pending order it holds (line 51)
InvokeApprove(p, pid) ==
    /\ proc[p].pc \in Resting
    /\ calls < MaxCalls
    /\ calls' = calls + 1
    /\ proc' = [proc EXCEPT ![p] =
                  [IdleProc EXCEPT !.pc = "addOrder", !.op = "approve",
                                   !.pendingOrderId = pid,
                                   !.userId = PendingData[pid].userId,
                                   !.tableNumber = PendingData[pid].tableNumber,
                                   !.items = PendingData[pid].items]]
    /\ UNCHANGED <<storeVars, billMerges, menuOut, stats, tg>>

\* a caller invokes addToTableBill(userId, tableNumber, items) (line 191)
InvokeAddToTableBill(p, userId, tableNumber, items) ==
    /\ proc[p].pc \in Resting
    /\ calls < MaxCalls
    /\ calls' = calls + 1
    /\ proc' = [proc EXCEPT ![p] =
                  [IdleProc EXCEPT !.pc = "getTableBill", !.op = "addToTableBill",
                                   !.userId = userId,
                                   !.tableNumber = tableNumber,
                                   !.items = items]]
    /\ UNCHANGED <<storeVars, billMerges, menuOut, stats, tg>>

\* line 60: await this.addOrder(approvedOrder)
AddOrder(p) ==
    /\ proc[p].pc = "addOrder"
    /\ orders' = Append(orders, ApprovedOrder(PendingData[proc[p].pendingOrderId]))
    /\ proc' = [proc EXCEPT ![p].orderId = Len(orders) + 1,
                            ![p].pc = "getMenuItems"]
    /\ UNCHANGED <<menuItems, kitchenOrders, barOrders, tableBills, pendingOrders,
                   calls, billMerges, menuOut, stats, tg>>

\* line 63-64: await this.getMenuItems(userId), then the split
GetMenuItemsForSplit(p) ==
    /\ proc[p].pc = "getMenuItems"
    /\ LET split == splitItemsByDepartment(proc[p].items,
                                           getMenuItems(menuItems, proc[p].userId))
       IN  proc' = [proc EXCEPT ![p].kitchenItems = split.kitchenItems,
                                ![p].barItems = split.barItems,
                                ![p].pc = AfterSplit(split)]
    /\ UNCHANGED <<storeVars, calls, billMerges, menuOut, stats, tg>>

\* line 67-69: await this.sendToDepartment(..., kitchenItems, 'kitchen')
SendToKitchen(p) ==
    /\ proc[p].pc = "sendKitchen"
    /\ kitchenOrders' = Append(kitchenOrders,
          DepartmentRecord(proc[p].orderId, proc[p].userId,
                           proc[p].kitchenItems, "kitchen"))
    /\ proc' = [proc EXCEPT ![p].pc =
                  IF proc[p].barItems # <<>> THEN "sendBar" ELSE "getTableBill"]
    /\ UNCHANGED <<menuItems, orders, barOrders, tableBills, pendingOrders,
                   calls, billMerges, menuOut, stats, tg>>

\* line 70-72: await this.sendToDepartment(..., barItems, 'bar')
SendToBar(p) ==
    /\ proc[p].pc = "sendBar"
    /\ barOrders' = Append(barOrders,
          DepartmentRecord(proc[p].orderId, proc[p].userId,
                           proc[p].barItems, "bar"))
    /\ proc' = [proc EXCEPT ![p].pc = "getTableBill"]
    /\ UNCHANGED <<menuItems, orders, kitchenOrders, tableBills, pendingOrders,
                   calls, billMerges, menuOut, stats, tg>>

\* line 193: await this.getTableBill(userId, tableNumber). limit(1) returns
\* the match with the least document id; ids are generated at random, so it
\* may be any of the matches.
GetTableBill(p) ==
    /\ proc[p].pc = "getTableBill"
    /\ LET ids == ActiveBillIds(tableBills, proc[p].userId, proc[p].tableNumber)
       IN  \/ /\ ids = {}
              /\ proc' = [proc EXCEPT ![p].existingBill = <<>>,
                                      ![p].pc = "writeBill"]
           \/ \E i \in ids :
                 proc' = [proc EXCEPT
                            ![p].existingBill = <<TableBillOf(i, tableBills[i])>>,
                            ![p].pc = "writeBill"]
    /\ UNCHANGED <<storeVars, calls, billMerges, menuOut, stats, tg>>

\* the position after addToTableBill returned
AfterBill(p) == IF proc[p].op = "approve" THEN "deletePending" ELSE "done"

\* line 198-218: updateDoc of the bill that was read, or addDoc of a new one
WriteBill(p) ==
    /\ proc[p].pc = "writeBill"
    /\ tableBills' =
          IF proc[p].existingBill # <<>>
          THEN UpdateTableBill(tableBills, proc[p].existingBill[1], proc[p].items)
          ELSE Append(tableBills,
                      NewBill(proc[p].userId, proc[p].tableNumber, proc[p].items))
    /\ proc' = [proc EXCEPT ![p].pc = AfterBill(p)]
    /\ billMerges' =
          IF proc[p].op = "approve"
          THEN [billMerges EXCEPT ![proc[p].pendingOrderId] = @ + 1]
          ELSE billMerges
    /\ UNCHANGED <<menuItems, orders, kitchenOrders, barOrders, pendingOrders,
                   calls, menuOut, stats, tg>>

\* line 76: await deleteDoc(doc(db, 'pendingOrders', pendingOrderId)); the
\* deletion of a document that does not exist succeeds
DeletePending(p) ==
    /\ proc[p].pc = "deletePending"
    /\ pendingOrders' = pendingOrders \ {proc[p].pendingOrderId}
    /\ proc' = [proc EXCEPT ![p].pc = "done"]
    /\ UNCHANGED <<menuItems, orders, kitchenOrders, barOrders, tableBills,
                   calls, billMerges, menuOut, stats, tg>>

\* the order ids a caller may name in markOrderAsComplete
OrderIds == {1, 2}

\* updateDoc(..., { status: 'completed', completedAt }), line 260-263
CompleteRecord(coll, docId) ==
    [coll EXCEPT ![docId] = Spread(@, [status |-> "completed"])]

\* a caller invokes markOrderAsComplete(orderId, department) (line 248)
InvokeMarkOrderAsComplete(p, orderId, department) ==
    /\ proc[p].pc \in Resting
    /\ calls < MaxCalls
    /\ calls' = calls + 1
    /\ proc' = [proc EXCEPT ![p] =
                  [IdleProc EXCEPT !.pc = "findDepartmentOrder", !.op = "complete",
                                   !.orderId = orderId,
                                   !.department = department]]
    /\ UNCHANGED <<storeVars, billMerges, menuOut, stats, tg>>

\* line 251-256: getDocs of the department's records of the order, limit(1);
\* line 258: nothing is done when there is none
FindDepartmentOrder(p) ==
    /\ proc[p].pc = "findDepartmentOrder"
    /\ LET coll == IF proc[p].department = "bar" THEN barOrders ELSE kitchenOrders
           ids == {i \in DOMAIN coll : coll[i].orderId = proc[p].orderId}
       IN  \/ /\ ids = {}
              /\ proc' = [proc EXCEPT ![p].pc = "done"]
           \/ \E i \in ids :
                 proc' = [proc EXCEPT ![p].found = i,
                                      ![p].pc = "completeDepartmentOrder"]
    /\ UNCHANGED <<storeVars, calls, billMerges, menuOut, stats, tg>>

\* line 259-263: await updateDoc of the record that was found
CompleteDepartmentOrder(p) ==
    /\ proc[p].pc = "completeDepartmentOrder"
    /\ IF proc[p].department = "bar"
       THEN /\ barOrders' = CompleteRecord(barOrders, proc[p].found)
            /\ UNCHANGED kitchenOrders
       ELSE /\ kitchenOrders' = CompleteRecord(kitchenOrders, proc[p].found)
            /\ UNCHANGED barOrders
    /\ proc' = [proc EXCEPT ![p].pc = "done"]
    /\ UNCHANGED <<menuItems, orders, tableBills, pendingOrders,
                   calls, billMerges, menuOut, stats, tg>>

\* the awaited store call rejects: the catch blocks log and rethrow (line
\* 79-82, 164-167, 28-31, 219-222, 239-242, 264-267), the operation ends with
\* the error
StoreCallFails(p) ==
    /\ proc[p].pc \notin Resting
    /\ proc' = [proc EXCEPT ![p].failedAt = proc[p].pc, ![p].pc = "failed"]
    /\ UNCHANGED <<storeVars, calls, billMerges, menuOut, stats, tg>>

Init ==
    /\ menuItems \in InitialMenus
    /\ orders = <<>>
    /\ kitchenOrders = <<>>
    /\ barOrders = <<>>
    /\ tableBills \in InitialBills
    /\ pendingOrders = PendingIds
    /\ proc = [p \in Procs |-> IdleProc]
    /\ calls = 0
    /\ billMerges = [pid \in PendingIds |-> 0]
    /\ menuOut = NoOutcome
    /\ stats = StatsIdle
    /\ tg = TgIdle

Next ==
    \/ \E p \in Procs, pid \in PendingIds : InvokeApprove(p, pid)
    \/ \E p \in Procs, u \in {"u1"}, t \in {"t1"}, items \in DirectItems :
          InvokeAddToTableBill(p, u, t, items)
    \/ \E p \in Procs : AddOrder(p)
    \/ \E p \in Procs : GetMenuItemsForSplit(p)
    \/ \E p \in Procs : SendToKitchen(p)
    \/ \E p \in Procs : SendToBar(p)
    \/ \E p \in Procs : GetTableBill(p)
    \/ \E p \in Procs : WriteBill(p)
    \/ \E p \in Procs : DeletePending(p)
    \/ \E p \in Procs, orderId \in OrderIds, department \in {"kitchen", "bar"} :
          InvokeMarkOrderAsComplete(p, orderId, department)
    \/ \E p \in Procs : FindDepartmentOrder(p)
    \/ \E p \in Procs : CompleteDepartmentOrder(p)
    \/ \E p \in Procs : StoreCallFails(p)

Spec == Init /\ [][Next]_vars

----------------------------------------------------------------------------
(* Properties of the ledger *)

\* the callers that ran approvePendingOrder to its return
Approved == {p \in Procs : proc[p].op = "approve" /\ proc[p].pc = "done"}

\* an item is routed to the bar iff its id is that of a menu item of the
\* owner that is tagged bar
RoutedToBar(item, owner) ==
    \E i \in DOMAIN menuItems :
        /\ i = item.id
        /\ menuItems[i].userId = owner
        /\ "department" \in DOMAIN menuItems[i]
        /\ menuItems[i].department = "bar"

RoutedItems(items, owner, department) ==
    SelectSeq(items, LAMBDA it : RoutedToBar(it, owner) <=> (department = "bar"))

RecordsOf(coll, orderId) == {i \in DOMAIN coll : coll[i].orderId = orderId}

DepartmentRecordsOk(coll, p, department) ==
    LET want == RoutedItems(proc[p].items, proc[p].userId, department)
        recs == RecordsOf(coll, proc[p].orderId)
    IN  /\ Cardinality(recs) = (IF want # <<>> THEN 1 ELSE 0)
        /\ \A i \in recs : /\ coll[i].items = want
                           /\ coll[i].department = department
                           /\ coll[i].userId = proc[p].userId

\* C1: after approvePendingOrder returned, each department has exactly one
\* record of the new order if items of the pending order are routed to it and
\* none otherwise, the record holds exactly the items routed to it, the two
\* records split the pending order's items, and the pending order is deleted.
C1_DepartmentRecords ==
    \A p \in Approved :
        /\ DepartmentRecordsOk(kitchenOrders, p, "kitchen")
        /\ DepartmentRecordsOk(barOrders, p, "bar")
        /\ Len(RoutedItems(proc[p].items, proc[p].userId, "kitchen"))
             + Len(RoutedItems(proc[p].items, proc[p].userId, "bar"))
           = Len(proc[p].items)
        /\ proc[p].pendingOrderId \notin pendingOrders

\* an approval of an order with two kitchen items and one bar item returned
C1_Witness ==
    \E p \in Approved :
        /\ Len(proc[p].kitchenItems) = 2
        /\ Len(proc[p].barItems) = 1
        /\ \E i \in DOMAIN proc[p].items : proc[p].items[i].id = MissingId

BillTotalsOk(bills) == \A i \in DOMAIN bills :
    bills[i].total = DAdd(bills[i].subtotal, bills[i].tax)

\* caller p's write of the bill succeeds in this step
BillWritten(p) == proc[p].pc = "writeBill" /\ proc'[p].pc = AfterBill(p)

\* no other call wrote the bill between p's read and p's write
ReadIsCurrent(p) ==
    IF proc[p].existingBill = <<>>
    THEN ActiveBillIds(tableBills, proc[p].userId, proc[p].tableNumber) = {}
    ELSE proc[p].existingBill[1] =
            TableBillOf(proc[p].existingBill[1].id,
                        tableBills[proc[p].existingBill[1].id])

AdditiveMerge(p) ==
    LET s2 == SumTotals(proc[p].items)
    IN  IF proc[p].existingBill = <<>>
        THEN /\ Len(tableBills') = Len(tableBills) + 1
             /\ LET b == tableBills'[Len(tableBills')]
                IN  /\ b.subtotal = s2
                    /\ b.tax = DMul(s2, Dec(15, 100))
                    /\ b.total = DAdd(b.subtotal, b.tax)
                    /\ b.items = proc[p].items
                    /\ b.status = "active"
                    /\ b.userId = proc[p].userId
                    /\ b.tableNumber = proc[p].tableNumber
        ELSE LET id == proc[p].existingBill[1].id
                 old == tableBills[id]
                 new == tableBills'[id]
             IN  /\ Len(tableBills') = Len(tableBills)
                 /\ new.subtotal = DAdd(old.subtotal, s2)
                 /\ new.tax = DAdd(old.tax, DMul(s2, Dec(15, 100)))
                 /\ new.total = DAdd(new.subtotal, new.tax)
                 /\ new.items = old.items \o proc[p].items

\* C2: a call of addToTableBill that no other call overlaps adds the items'
\* subtotal S2 to the subtotal, 0.15*S2 to the tax, appends the items, and
\* leaves total = subtotal + tax (a new bill starts from S2 and 0.15*S2);
\* total = subtotal + tax holds of every bill after every step.
C2_AdditiveBill ==
    [][/\ BillTotalsOk(tableBills')
       /\ \A p \in Procs : BillWritten(p) /\ ReadIsCurrent(p) => AdditiveMerge(p)]_vars

\* C3: at most one active bill per (owner, table)
C3_OneActiveBill ==
    \A i, j \in DOMAIN tableBills :
        /\ tableBills[i].status = "active"
        /\ tableBills[j].status = "active"
        /\ tableBills[i].userId = tableBills[j].userId
        /\ tableBills[i].tableNumber = tableBills[j].tableNumber
        => i = j

\* the steps of approvePendingOrder, in order
StepRank(step) ==
    CASE step = "addOrder" -> 1
      [] step = "getMenuItems" -> 2
      [] step = "sendKitchen" -> 3
      [] step = "sendBar" -> 4
      [] step = "getTableBill" -> 5
      [] step = "writeBill" -> 6
      [] step = "deletePending" -> 7
      [] OTHER -> 0

\* C4: when a store call of approvePendingOrder fails, the operation ends with
\* the error, no later step has run, what the earlier steps wrote is in the
\* store, and the pending order still exists.
C4_FailureLeavesPending ==
    \A p \in Procs :
        proc[p].op = "approve" /\ proc[p].pc = "failed" =>
            LET r == StepRank(proc[p].failedAt)
            IN  /\ r > 1 => proc[p].orderId \in DOMAIN orders
                /\ r <= 1 => proc[p].orderId = 0
                /\ r <= 3 => RecordsOf(kitchenOrders, proc[p].orderId) = {}
                /\ r <= 4 => RecordsOf(barOrders, proc[p].orderId) = {}
                /\ r > 3 => DepartmentRecordsOk(kitchenOrders, p, "kitchen")
                /\ r > 4 => DepartmentRecordsOk(barOrders, p, "bar")
                /\ proc[p].pendingOrderId \in pendingOrders

\* the fields of the bill p read, merged with p's items alone
MergedFromRead(p) ==
    LET old == proc[p].existingBill[1]
        s2 == SumTotals(proc[p].items)
    IN  [items |-> old.items \o proc[p].items,
         subtotal |-> DAdd(old.subtotal, s2),
         tax |-> DAdd(old.tax, DMul(s2, Dec(15, 100))),
         total |-> DAdd(old.total, DAdd(s2, DMul(s2, Dec(15, 100))))]

BillFields(b) ==
    [items |-> b.items, subtotal |-> b.subtotal, tax |-> b.tax, total |-> b.total]

\* C6: the write of addToTableBill is computed from the bill the call read
\* and replaces whatever another call wrote since, without any check: of two
\* calls that read the same bill, the later write drops the earlier merge.
C6_LastWriteWins ==
    [][\A p \in Procs :
          BillWritten(p) /\ proc[p].existingBill # <<>> =>
              BillFields(tableBills'[proc[p].existingBill[1].id]) = MergedFromRead(p)]_vars

\* two calls read the same bill, both returned, and the bill holds the merge
\* of one of them only
C6_Witness ==
    \E p, q \in Procs :
        /\ p # q
        /\ proc[p].pc = "done" /\ proc[q].pc = "done"
        /\ proc[p].existingBill # <<>>
        /\ proc[p].existingBill = proc[q].existingBill
        /\ proc[q].items # <<>>
        /\ BillFields(tableBills[proc[p].existingBill[1].id]) = MergedFromRead(p)

\* C10: at most one order is created from a pending order, and its items are
\* merged into the table bill at most once
C10_ApprovedOnce ==
    \A pid \in PendingIds :
        /\ Cardinality({i \in DOMAIN orders : orders[i].id = pid}) <= 1
        /\ billMerges[pid] <= 1

----------------------------------------------------------------------------
(* Menu items: addMenuItem and getMenuItems as operations of their own *)

\* The items a caller hands to addMenuItem: with no department key, or with
\* the key holding undefined, null, '', 'kitchen' or 'bar'
MenuInputs ==
    {[userId |-> u, name |-> "dish"] : u \in Owners}
    \cup {[userId |-> u, name |-> "dish", department |-> d] :
             u \in Owners, d \in Falsy \cup {"kitchen", "bar"}}

\* the keys of a menu item whose value may be undefined (views is a number)
MaybeUndefined == {"userId", "name", "department"}

HasUndefined(data) ==
    \E k \in DOMAIN data \cap MaybeUndefined : data[k] = "undefined"

\* what the store keeps of data written with ignoreUndefinedProperties
DropUndefined(data) ==
    [k \in {j \in DOMAIN data : j \notin MaybeUndefined \/ data[j] # "undefined"}
        |-> data[k]]

\* addMenuItem, line 34-46. addDoc rejects data holding undefined, unless the
\* store is set to ignore undefined properties, and then it drops them; the
\* setting is in the configuration, so both are possible.
AddMenuItem(item) ==
    /\ calls < MaxMenuCalls
    /\ calls' = calls + 1
    /\ \/ /\ ~HasUndefined(NewMenuItemData(item))
          /\ menuItems' = Append(menuItems, NewMenuItemData(item))
          /\ menuOut' = [op |-> "addMenuItem", item |-> item,
                         status |-> "returned", id |-> Len(menuItems) + 1]
       \/ /\ HasUndefined(NewMenuItemData(item))
          /\ menuItems' = Append(menuItems, DropUndefined(NewMenuItemData(item)))
          /\ menuOut' = [op |-> "addMenuItem", item |-> item,
                         status |-> "returned", id |-> Len(menuItems) + 1]
       \/ /\ menuItems' = menuItems
          /\ menuOut' = [op |-> "addMenuItem", item |-> item,
                         status |-> "thrown", id |-> 0]
    /\ UNCHANGED <<orders, kitchenOrders, barOrders, tableBills, pendingOrders,
                   proc, billMerges, stats, tg>>

\* getMenuItems, line 16-32, called by itself
ListMenuItems(userId) ==
    /\ calls < MaxMenuCalls
    /\ calls' = calls + 1
    /\ \/ menuOut' = [op |-> "getMenuItems", userId |-> userId,
                      status |-> "returned",
                      value |-> getMenuItems(menuItems, userId)]
       \/ menuOut' = [op |-> "getMenuItems", userId |-> userId,
                      status |-> "thrown", value |-> <<>>]
    /\ UNCHANGED <<storeVars, proc, billMerges, stats, tg>>

InitMenu ==
    /\ menuItems = <<>>
    /\ orders = <<>>
    /\ kitchenOrders = <<>>
    /\ barOrders = <<>>
    /\ tableBills = <<>>
    /\ pendingOrders = {}
    /\ proc = [p \in Procs |-> IdleProc]
    /\ calls = 0
    /\ billMerges = [pid \in PendingIds |-> 0]
    /\ menuOut = NoOutcome
    /\ stats = StatsIdle
    /\ tg = TgIdle

NextMenu ==
    \/ \E item \in MenuInputs : AddMenuItem(item)
    \/ \E u \in Owners : ListMenuItems(u)

SpecMenu == InitMenu /\ [][NextMenu]_vars

\* the department tag a menu item must have: its own if it carries one,
\* kitchen if it lacks one
TagOrKitchen(data) ==
    IF "department" \in DOMAIN data /\ data.department \in {"kitchen", "bar"}
    THEN data.department
    ELSE "kitchen"

\* C9: a menu item lacking a department tag is returned by getMenuItems and
\* persisted by addMenuItem with department kitchen, an item with a tag keeps
\* it, so every item returned or persisted has department kitchen or bar.
C9_DefaultKitchen ==
    /\ menuOut.op = "addMenuItem" =>
          /\ menuOut.status = "returned" =>
                /\ "department" \in DOMAIN menuItems[menuOut.id]
                /\ menuItems[menuOut.id].department = TagOrKitchen(menuOut.item)
    /\ menuOut.op = "getMenuItems" /\ menuOut.status = "returned" =>
          \A k \in DOMAIN menuOut.value :
              menuOut.value[k].department = TagOrKitchen(menuItems[menuOut.value[k].id])

----------------------------------------------------------------------------
(* getMenuStats *)

SItem(id, name, quantity) ==
    [id |-> id, name |-> name, quantity |-> quantity, total |-> Dec(20 * quantity, 1)]

\* Timestamp.now() at a given day: the Firestore Timestamp object addOrder
\* stores (line 161) and getOrders hands back as it is (line 178-181)
Timestamp(day) == [kind |-> "Timestamp", day |-> day]

\* The order documents getMenuStats may find. Item ids are property keys of
\* itemOrderCounts: the id n is the key String(n), an array index when n is
\* not negative.
StatOrderDocs ==
    {[userId |-> "u1", tableNumber |-> "t1", totalAmount |-> Dec(1999, 100),
      timestamp |-> Timestamp(105),
      items |-> <<SItem(2, "cola", 2), SItem(0 - 1, "special", 2), SItem(1, "tea", 2)>>],
     [userId |-> "u1", tableNumber |-> "t1", totalAmount |-> Dec(549, 100),
      timestamp |-> Timestamp(220),
      items |-> <<SItem(2, "cola", 1)>>],
     [userId |-> "u2", tableNumber |-> "t1", totalAmount |-> Dec(20, 1),
      timestamp |-> Timestamp(105),
      items |-> <<SItem(1, "tea", 1)>>]}

StatMenuDocs ==
    {[userId |-> "u1", name |-> "Tea", views |-> 3],
     [userId |-> "u1", name |-> "Cola"],
     [userId |-> "u2", name |-> "Tea", views |-> 5]}

\* The orders and menu items other callers add while getMenuStats runs
StatOrderInputs ==
    {[userId |-> "u1", tableNumber |-> "t1", totalAmount |-> Dec(20, 1),
      items |-> <<SItem(1, "tea", 1)>>]}

StatMenuInputs == {[userId |-> "u1", name |-> "Soup", views |-> 2]}

SeqsUpTo(S, n) == UNION {[1..k -> S] : k \in 0..n}

\* Array.prototype.slice(0, n) and slice(-n)
SliceFirst(list, n) == SubSeq(list, 1, Min(n, Len(list)))
SliceLast(list, n) == SubSeq(list, Len(list) - Min(n, Len(list)) + 1, Len(list))

\* orderBy('timestamp', 'desc'): later first, equal timestamps by document
\* id, descending too
RECURSIVE InsertByTimestampDesc(_, _)
InsertByTimestampDesc(x, sorted) ==
    IF sorted = <<>> THEN <<x>>
    ELSE IF \/ x.timestamp.day > Head(sorted).timestamp.day
            \/ /\ x.timestamp.day = Head(sorted).timestamp.day
               /\ x.id > Head(sorted).id
         THEN <<x>> \o sorted
         ELSE <<Head(sorted)>> \o InsertByTimestampDesc(x, Tail(sorted))

RECURSIVE SortByTimestampDesc(_)
SortByTimestampDesc(list) ==
    IF list = <<>> THEN <<>>
    ELSE InsertByTimestampDesc(Head(list), SortByTimestampDesc(Tail(list)))

\* getOrders, line 170-186
getOrders(coll, userId) ==
    LET ids == QueryByUser(coll, userId, 1)
    IN  SortByTimestampDesc(
            [k \in 1..Len(ids) |-> Spread([id |-> ids[k]], coll[ids[k]])])

\* orders.reduce((sum, order) => sum + order.totalAmount, 0), line 279
RECURSIVE SumAmountsFrom(_, _)
SumAmountsFrom(sum, list) ==
    IF list = <<>> THEN sum
    ELSE SumAmountsFrom(DAdd(sum, Head(list).totalAmount), Tail(list))

SumAmounts(list) == SumAmountsFrom(DZero, list)

\* item.views || 0
ViewsOf(item) == IF "views" \in DOMAIN item THEN item.views ELSE 0

RECURSIVE SumViews(_)
SumViews(menu) ==
    IF menu = <<>> THEN 0 ELSE ViewsOf(Head(menu)) + SumViews(Tail(menu))

RECURSIVE AllItems(_)
AllItems(list) ==
    IF list = <<>> THEN <<>> ELSE Head(list).items \o AllItems(Tail(list))

\* line 284-295: itemOrderCounts, as the list of its properties in the order
\* in which the keys were inserted
RECURSIVE CountItems(_, _, _)
CountItems(items, menu, counts) ==
    IF items = <<>> THEN counts
    ELSE LET it == Head(items)
             at == {i \in DOMAIN counts : counts[i].id = it.id}
         IN  IF at = {}
             THEN CountItems(Tail(items), menu,
                    Append(counts,
                           [id |-> it.id,
                            name |-> IF FindById(menu, it.id) = <<>>
                                     THEN it.name
                                     ELSE OrDefault(FindById(menu, it.id)[1],
                                                    "name", it.name),
                            orders |-> it.quantity]))
             ELSE CountItems(Tail(items), menu,
                    [counts EXCEPT ![CHOOSE i \in at : TRUE].orders = @ + it.quantity])

\* the key String(id) is an array index
IsArrayIndex(id) == id >= 0

RECURSIVE InsertByIdAsc(_, _)
InsertByIdAsc(x, sorted) ==
    IF sorted = <<>> THEN <<x>>
    ELSE IF x.id < Head(sorted).id
         THEN <<x>> \o sorted
         ELSE <<Head(sorted)>> \o InsertByIdAsc(x, Tail(sorted))

RECURSIVE SortByIdAsc(_, _)
SortByIdAsc(list, sorted) ==
    IF list = <<>> THEN sorted
    ELSE SortByIdAsc(Tail(list), InsertByIdAsc(Head(list), sorted))

\* Object.entries(itemOrderCounts), line 297: the keys that are array
\* indices in ascending numeric order, then the other keys in the order of
\* their insertion
ObjectEntries(props) ==
    SortByIdAsc(SelectSeq(props, LAMBDA e : IsArrayIndex(e.id)), <<>>)
    \o SelectSeq(props, LAMBDA e : ~IsArrayIndex(e.id))

\* sort((a, b) => b.orders - a.orders): stable, most ordered first
RECURSIVE InsertByOrdersDesc(_, _)
InsertByOrdersDesc(x, sorted) ==
    IF sorted = <<>> THEN <<x>>
    ELSE IF x.orders > Head(sorted).orders
         THEN <<x>> \o sorted
         ELSE <<Head(sorted)>> \o InsertByOrdersDesc(x, Tail(sorted))

RECURSIVE SortByOrdersDesc(_, _)
SortByOrdersDesc(list, sorted) ==
    IF list = <<>> THEN sorted
    ELSE SortByOrdersDesc(Tail(list), InsertByOrdersDesc(Head(list), sorted))

\* line 330-331: the month key of new Date(order.timestamp). A Firestore
\* Timestamp makes an Invalid Date, whose key is 'NaN-NaN'; a number of
\* days makes the date of that day, whose key is its year and month ym.
MonthKey(timestamp) ==
    IF timestamp.kind = "Timestamp"
    THEN [nan |-> TRUE, ym |-> 0]
    ELSE [nan |-> FALSE, ym |-> timestamp.day \div 100]

\* a.month.localeCompare(b.month) < 0: digits sort before letters
MonthBefore(a, b) == IF a.nan = b.nan THEN a.ym < b.ym ELSE b.nan

\* line 329-333: monthlyData, as the list of its properties in the order in
\* which the keys were inserted; no month key is an array index
RECURSIVE SumByMonth(_, _)
SumByMonth(list, data) ==
    IF list = <<>> THEN data
    ELSE LET o == Head(list)
             at == {i \in DOMAIN data : data[i].month = MonthKey(o.timestamp)}
         IN  IF at = {}
             THEN SumByMonth(Tail(list),
                    Append(data, [month |-> MonthKey(o.timestamp),
                                  revenue |-> DAdd(DZero, o.totalAmount)]))
             ELSE SumByMonth(Tail(list),
                    [data EXCEPT ![CHOOSE i \in at : TRUE].revenue =
                                    DAdd(@, o.totalAmount)])

RECURSIVE InsertByMonthAsc(_, _)
InsertByMonthAsc(x, sorted) ==
    IF sorted = <<>> THEN <<x>>
    ELSE IF MonthBefore(x.month, Head(sorted).month)
         THEN <<x>> \o sorted
         ELSE <<Head(sorted)>> \o InsertByMonthAsc(x, Tail(sorted))

RECURSIVE SortByMonthAsc(_, _)
SortByMonthAsc(list, sorted) ==
    IF list = <<>> THEN sorted
    ELSE SortByMonthAsc(Tail(list), InsertByMonthAsc(Head(list), sorted))

\* calculateMonthlyRevenue, line 326-339
calculateMonthlyRevenue(list) ==
    SliceLast(SortByMonthAsc(SumByMonth(list, <<>>), <<>>), MonthsLimit)

\* line 315-322
ZeroStats ==
    [totalOrders |-> 0, totalRevenue |-> DZero, totalViews |-> 0,
     popularItems |-> <<>>, recentOrders |-> <<>>, monthlyRevenue |-> <<>>]

\* line 278-312
ComputedStats(list, menu) ==
    [totalOrders |-> Len(list),
     totalRevenue |-> SumAmounts(list),
     totalViews |-> SumViews(menu),
     popularItems |->
        SliceFirst(SortByOrdersDesc(ObjectEntries(CountItems(AllItems(list), menu, <<>>)),
                                    <<>>),
                   PopularLimit),
     recentOrders |-> SliceFirst(list, RecentLimit),
     monthlyRevenue |-> calculateMonthlyRevenue(list)]

\* one of the two reads of getMenuStats: in flight, resolved with the
\* documents it read, or rejected
Unread == [state |-> "pending", docs |-> <<>>]
ReadOk(docs) == [state |-> "ok", docs |-> docs]
ReadFailed == [state |-> "failed", docs |-> <<>>]

\* a getMenuStats whose catch block rethrows
MutGetMenuStats(ordersRead, menuRead) ==
    IF ordersRead.state = "ok" /\ menuRead.state = "ok"
    THEN [status |-> "returned",
          value |-> ComputedStats(ordersRead.docs, menuRead.docs)]
    ELSE [status |-> "thrown", value |-> ZeroStats]

\* getMenuStats, line 270-324, from the outcome of its two reads:
\* Promise.all rejects when either read does, and the catch block returns
\* the zeroed stats
getMenuStats(ordersRead, menuRead) ==
    IF ordersRead.state = "ok" /\ menuRead.state = "ok"
    THEN [status |-> "returned",
          value |-> ComputedStats(ordersRead.docs, menuRead.docs)]
    ELSE [status |-> "returned", value |-> ZeroStats]

\* a caller invokes getMenuStats(userId): line 272-275 starts both reads
InvokeGetMenuStats(userId) ==
    /\ stats.pc \in {"idle", "returned"}
    /\ calls < MaxStatCalls
    /\ calls' = calls + 1
    /\ stats' = [StatsIdle EXCEPT !.pc = "reading", !.userId = userId]
    /\ UNCHANGED <<storeVars, proc, billMerges, menuOut, tg>>

\* line 273: the getDocs of getOrders resolves or rejects
ReadOrdersForStats(ok) ==
    /\ stats.pc = "reading"
    /\ stats.ordersRead.state = "pending"
    /\ stats' = [stats EXCEPT !.ordersRead =
                    IF ok THEN ReadOk(getOrders(orders, stats.userId)) ELSE ReadFailed]
    /\ UNCHANGED <<storeVars, proc, calls, billMerges, menuOut, tg>>

\* line 274: the getDocs of getMenuItems resolves or rejects
ReadMenuForStats(ok) ==
    /\ stats.pc = "reading"
    /\ stats.menuRead.state = "pending"
    /\ stats' = [stats EXCEPT !.menuRead =
                    IF ok THEN ReadOk(getMenuItems(menuItems, stats.userId))
                    ELSE ReadFailed]
    /\ UNCHANGED <<storeVars, proc, calls, billMerges, menuOut, tg>>

\* line 272-323: Promise.all settles, when both reads resolved or as soon as
\* one rejected, and getMenuStats returns
ReturnMenuStats ==
    /\ stats.pc = "reading"
    /\ \/ stats.ordersRead.state = "ok" /\ stats.menuRead.state = "ok"
       \/ "failed" \in {stats.ordersRead.state, stats.menuRead.state}
    /\ stats' = [stats EXCEPT
                   !.pc = "returned",
                   !.status = getMenuStats(stats.ordersRead, stats.menuRead).status,
                   !.value = getMenuStats(stats.ordersRead, stats.menuRead).value]
    /\ UNCHANGED <<storeVars, proc, calls, billMerges, menuOut, tg>>

\* another caller's addOrder(order), line 157-168: one addDoc, which stores
\* the order with timestamp Timestamp.now() or rejects
AddOrderCall(order, day) ==
    /\ calls < MaxStatCalls
    /\ calls' = calls + 1
    /\ \/ /\ orders' = Append(orders, Spread(order, [timestamp |-> Timestamp(day)]))
          /\ menuOut' = [op |-> "addOrder", status |-> "returned",
                         id |-> Len(orders) + 1]
       \/ /\ orders' = orders
          /\ menuOut' = [op |-> "addOrder", status |-> "thrown", id |-> 0]
    /\ UNCHANGED <<menuItems, kitchenOrders, barOrders, tableBills, pendingOrders,
                   proc, billMerges, stats, tg>>

\* another caller's addMenuItem(item)
AddMenuItemCall(item) ==
    /\ calls < MaxStatCalls
    /\ AddMenuItem(item)

InitStats ==
    /\ menuItems \in SeqsUpTo(StatMenuDocs, MaxStatDocs)
    /\ orders \in SeqsUpTo(StatOrderDocs, MaxStatDocs)
    /\ kitchenOrders = <<>>
    /\ barOrders = <<>>
    /\ tableBills = <<>>
    /\ pendingOrders = {}
    /\ proc = [p \in Procs |-> IdleProc]
    /\ calls = 0
    /\ billMerges = [pid \in PendingIds |-> 0]
    /\ menuOut = NoOutcome
    /\ stats = StatsIdle
    /\ tg = TgIdle

NextStats ==
    \/ \E u \in Owners : InvokeGetMenuStats(u)
    \/ \E ok \in BOOLEAN : ReadOrdersForStats(ok)
    \/ \E ok \in BOOLEAN : ReadMenuForStats(ok)
    \/ ReturnMenuStats
    \/ \E order \in StatOrderInputs : AddOrderCall(order, 301)
    \/ \E item \in StatMenuInputs : AddMenuItemCall(item)

SpecStats == InitStats /\ [][NextStats]_vars

OwnDocs(coll, userId) == {i \in DOMAIN coll : coll[i].userId = userId}

\* the sum of the views of the menu items of a read
RECURSIVE ViewsOfOwner(_, _)
ViewsOfOwner(ids, docs) ==
    IF ids = {} THEN 0
    ELSE LET i == CHOOSE j \in ids : TRUE
         IN  (IF "views" \in DOMAIN docs[i] THEN docs[i].views ELSE 0)
             + ViewsOfOwner(ids \ {i}, docs)

StatsReturned == stats.pc = "returned"

StatsFailed ==
    /\ StatsReturned
    /\ "failed" \in {stats.ordersRead.state, stats.menuRead.state}

\* getMenuStats returned, its reads succeeded and the owner has no orders
StatsOfNoOrders ==
    /\ StatsReturned
    /\ stats.ordersRead.state = "ok" /\ stats.menuRead.state = "ok"
    /\ OwnDocs(orders, stats.userId) = {}

\* C8 as stated: getMenuStats never raises, and for an owner with no orders,
\* and whenever one of its reads fails, every field of the result is zero or
\* empty.
C8_AllZero ==
    /\ StatsReturned => stats.status = "returned"
    /\ StatsFailed \/ StatsOfNoOrders => stats.value = ZeroStats

\* C8, amended: getMenuStats never raises; when a read fails every field is
\* zero or empty; for an owner with no orders totalOrders and totalRevenue are
\* 0, popularItems, recentOrders and monthlyRevenue are empty, and totalViews
\* is the sum of the views of the owner's menu items that were read.
C8_ZeroButViews ==
    /\ StatsReturned => stats.status = "returned"
    /\ StatsFailed => stats.value = ZeroStats
    /\ StatsOfNoOrders =>
          /\ stats.value = [ZeroStats EXCEPT
                              !.totalViews = ViewsOfOwner(DOMAIN stats.menuRead.docs,
                                                          stats.menuRead.docs)]
          /\ \A k \in DOMAIN stats.menuRead.docs :
                /\ stats.menuRead.docs[k].id \in OwnDocs(menuItems, stats.userId)
                /\ ViewsOf(stats.menuRead.docs[k])
                     = ViewsOf(menuItems[stats.menuRead.docs[k].id])

\* getMenuStats ran for an owner with no orders whose menu items were viewed
C8_Witness == StatsOfNoOrders /\ stats.value.totalViews > 0

----------------------------------------------------------------------------
(* TelegramService *)

\* what one axios.post does: it resolves with data.ok true, resolves with
\* data.ok false, or rejects
ApiOutcomes == {"ok_true", "ok_false", "throw"}

TgOps ==
    {"sendMessage", "sendPhoto", "sendPendingOrderWithButtons",
     "sendOrderToDepartment", "sendOrderNotification", "sendPaymentConfirmation",
     "sendWaiterCall", "sendBillRequest", "sendDailySummary",
     "sendPaymentConfirmationWithButtons"}

\* The items of the order handed over: tagged kitchen, tagged bar, untagged
TgItems ==
    {[id |-> 1, name |-> "tea", quantity |-> 1, total |-> Dec(20, 1),
      department |-> "kitchen"],
     [id |-> 2, name |-> "cola", quantity |-> 1, total |-> Dec(20, 1),
      department |-> "bar"],
     [id |-> 3, name |-> "soup", quantity |-> 1, total |-> Dec(20, 1)]}

\* getKitchenOrders and getBarOrders, part_000 line 124-128 and 143-147:
\* { id: doc.id, ...doc.data() } as Order (the timestamp is left out, as in
\* the ledger's documents). A department record has no totalAmount and no
\* tableNumber.
DepartmentOrderOf(docId, data) == Spread([id |-> docId], data)

\* The orders (and pending orders) handed over: complete ones, the kitchen
\* record of an approved order as getKitchenOrders returns it, an order with
\* an item that has no total, and an order without id
TgOrders ==
    {[id |-> "1", tableNumber |-> "t1", totalAmount |-> Dec(40, 1), items |-> items] :
        items \in SeqsUpTo(TgItems, MaxTgItems)}
    \cup {DepartmentOrderOf("1",
             DepartmentRecord(1, "u1", <<Item(1, 1, 20, 1)>>, "kitchen"))}
    \cup {[id |-> "1", tableNumber |-> "t1", totalAmount |-> Dec(20, 1),
           items |-> <<[id |-> 1, name |-> "tea", quantity |-> 1,
                        department |-> "kitchen"]>>]}
    \cup {[tableNumber |-> "t1", totalAmount |-> Dec(20, 1),
           items |-> <<[id |-> 1, name |-> "tea", quantity |-> 1,
                        total |-> Dec(20, 1), department |-> "kitchen"]>>]}

\* The summaries handed to sendDailySummary: complete, and without revenue
TgSummaries ==
    {[totalOrders |-> 1, totalRevenue |-> Dec(20, 1),
      mostOrderedItems |-> <<[name |-> "tea", count |-> 1]>>],
     [totalOrders |-> 0, mostOrderedItems |-> <<>>]}

\* The arguments of an operation
TgArgs(op) ==
    CASE op \in {"sendPendingOrderWithButtons", "sendOrderNotification",
                 "sendPaymentConfirmation"} ->
            [order : TgOrders]
      [] op = "sendOrderToDepartment" ->
            [order : TgOrders, department : {"kitchen", "bar"}]
      [] op = "sendDailySummary" -> [summary : TgSummaries]
      [] op = "sendPaymentConfirmationWithButtons" ->
            {[confirmationId |-> "1", total |-> Dec(20, 1)],
             [confirmationId |-> "1"]}
      [] op \in {"sendWaiterCall", "sendBillRequest"} -> [tableNumber : {"t1"}]
      [] OTHER -> [message : {"text"}]

BoolStr(b) == IF b THEN "true" ELSE "false"

\* sendMessage, line 9-22: response.data.ok, or false from the catch block
sendMessage(outcome) ==
    IF outcome = "throw" THEN [status |-> "returned", value |-> "false"]
    ELSE [status |-> "returned", value |-> BoolStr(outcome = "ok_true")]

\* sendPhoto, line 24-43
sendPhoto(outcome) ==
    IF outcome = "throw" THEN [status |-> "returned", value |-> "false"]
    ELSE [status |-> "returned", value |-> BoolStr(outcome = "ok_true")]

\* sendMessageWithButtons, line 223-238
sendMessageWithButtons(outcome) ==
    IF outcome = "throw" THEN [status |-> "returned", value |-> "false"]
    ELSE [status |-> "returned", value |-> BoolStr(outcome = "ok_true")]

HelperResult(via, outcome) ==
    CASE via = "sendMessage" -> sendMessage(outcome)
      [] via = "sendPhoto" -> sendPhoto(outcome)
      [] via = "sendMessageWithButtons" -> sendMessageWithButtons(outcome)

\* a request to the messaging API: the endpoint, the helper that posts it,
\* and the callback_data of its buttons as <<verb, domain, id>>
TextRequest == [api |-> "sendMessage", via |-> "sendMessage", buttons |-> <<>>]
PhotoRequest == [api |-> "sendPhoto", via |-> "sendPhoto", buttons |-> <<>>]
ButtonsRequest(verb1, verb2, domain, id) ==
    [api |-> "sendMessage", via |-> "sendMessageWithButtons",
     buttons |-> <<<<verb1, domain, id>>, <<verb2, domain, id>>>>]

\* sendOrderToDepartment, line 72-75: the items with item.department ===
\* department
DepartmentItems(items, department) ==
    SelectSeq(items, LAMBDA it :
        "department" \in DOMAIN it /\ it.department = department)

\* `${order.id}` in a template: the text 'undefined' for a missing id
IdText(obj, key) == IF key \in DOMAIN obj THEN obj[key] ELSE "undefined"

\* line 46-55, 108-117, 125-134: item.total.toFixed(2) of every item and
\* order.totalAmount.toFixed(2) raise a TypeError on a missing value
OrderTextRaises(order) ==
    \/ \E i \in DOMAIN order.items : "total" \notin DOMAIN order.items[i]
    \/ "totalAmount" \notin DOMAIN order

\* what an operation computes before its first post, outside any try block,
\* raises a TypeError
FormatRaises(op, arg) ==
    CASE op \in {"sendPendingOrderWithButtons", "sendOrderNotification",
                 "sendPaymentConfirmation"} ->
            OrderTextRaises(arg.order)
      [] op = "sendOrderToDepartment" ->
            \* line 92: order.id.slice(0, 8), reached when there are items
            /\ DepartmentItems(arg.order.items, arg.department) # <<>>
            /\ "id" \notin DOMAIN arg.order
      [] op = "sendDailySummary" ->
            \* line 191: summary.totalRevenue.toFixed(2)
            "totalRevenue" \notin DOMAIN arg.summary
      [] op = "sendPaymentConfirmationWithButtons" ->
            \* line 208: total.toFixed(2)
            "total" \notin DOMAIN arg
      [] OTHER -> FALSE

\* the requests an operation makes, in order
Requests(op, arg) ==
    CASE op = "sendMessage" -> <<TextRequest>>
      [] op = "sendPhoto" -> <<PhotoRequest>>
      [] op = "sendPendingOrderWithButtons" ->
            <<ButtonsRequest("approve", "reject", "order", IdText(arg.order, "id"))>>
      [] op = "sendOrderToDepartment" ->
            IF DepartmentItems(arg.order.items, arg.department) = <<>> THEN <<>>
            ELSE <<ButtonsRequest("ready", "delay", arg.department,
                                  IdText(arg.order, "id"))>>
      [] op = "sendOrderNotification" -> <<TextRequest>>
      [] op = "sendPaymentConfirmation" ->
            <<PhotoRequest,
              ButtonsRequest("approve", "reject", "payment", IdText(arg.order, "id"))>>
      [] op = "sendWaiterCall" -> <<TextRequest>>
      [] op = "sendBillRequest" -> <<TextRequest>>
      [] op = "sendDailySummary" -> <<TextRequest>>
      [] op = "sendPaymentConfirmationWithButtons" ->
            <<ButtonsRequest("approve", "reject", "payment", arg.confirmationId)>>

\* sendPaymentConfirmation, line 142 and 160: the result of sendPhoto is
\* dropped, that of sendMessageWithButtons is returned
PaymentConfirmationResult(photoResult, buttonsResult) == buttonsResult

\* what the operation returns, from the results of the helpers it awaited
ReturnOf(op, results) ==
    IF results = <<>> THEN "true"
    ELSE IF op = "sendPaymentConfirmation"
         THEN PaymentConfirmationResult(results[1], results[2])
         ELSE results[Len(results)]

\* a caller invokes an operation: it raises while it formats its text, or
\* returns at once when it has nothing to send (line 77), or makes its
\* first post
TgInvoke(op, arg) ==
    /\ tg.pc \in {"idle", "returned", "thrown"}
    /\ tg' = IF FormatRaises(op, arg)
             THEN [pc |-> "thrown", op |-> op, arg |-> arg, todo |-> <<>>,
                   outbox |-> <<>>, results |-> <<>>, result |-> "none"]
             ELSE [pc |-> IF Requests(op, arg) = <<>> THEN "returned" ELSE "awaiting",
                   op |-> op, arg |-> arg, todo |-> Requests(op, arg),
                   outbox |-> <<>>, results |-> <<>>,
                   result |-> IF Requests(op, arg) = <<>>
                              THEN ReturnOf(op, <<>>) ELSE "none"]
    /\ UNCHANGED <<storeVars, proc, calls, billMerges, menuOut, stats>>

\* the awaited post ends with an outcome; the helper returns, and the
\* operation goes on to its next request or returns
TgDeliver(outcome) ==
    /\ tg.pc = "awaiting"
    /\ LET req == Head(tg.todo)
           r == HelperResult(req.via, outcome)
           sent == Append(tg.outbox, Spread(req, [outcome |-> outcome]))
           got == Append(tg.results, r.value)
       IN  IF r.status = "thrown"
           THEN tg' = [tg EXCEPT !.pc = "thrown", !.outbox = sent, !.todo = <<>>]
           ELSE IF Tail(tg.todo) = <<>>
                THEN tg' = [tg EXCEPT !.pc = "returned", !.outbox = sent,
                                      !.results = got, !.todo = <<>>,
                                      !.result = ReturnOf(tg.op, got)]
                ELSE tg' = [tg EXCEPT !.outbox = sent, !.results = got,
                                      !.todo = Tail(tg.todo)]
    /\ UNCHANGED <<storeVars, proc, calls, billMerges, menuOut, stats>>

InitTg == InitMenu

NextTg ==
    \/ \E op \in TgOps : \E arg \in TgArgs(op) : TgInvoke(op, arg)
    \/ \E outcome \in ApiOutcomes : TgDeliver(outcome)

SpecTg == InitTg /\ [][NextTg]_vars

\* C5: every operation of the notification service ends by returning a
\* boolean, for every input and whatever the outcome of its posts, never by
\* raising, and returns false when the delivery it reports on (its last)
\* failed.
C5_NeverRaises ==
    /\ tg.pc # "thrown"
    /\ tg.pc = "returned" =>
          /\ tg.result \in {"true", "false"}
          /\ tg.todo = <<>>
          /\ tg.outbox # <<>> /\ tg.outbox[Len(tg.outbox)].outcome # "ok_true"
                => tg.result = "false"

\* C7: sendPaymentConfirmation never ends without having posted the
\* screenshot first and then, whatever came of that, the message with the
\* accept and reject payment buttons of the order; it returns the outcome of
\* the second post alone.
C7_PaymentConfirmation ==
    tg.op = "sendPaymentConfirmation" =>
        /\ tg.pc # "thrown"
        /\ tg.outbox # <<>> => tg.outbox[1].api = "sendPhoto"
        /\ tg.pc = "returned" =>
              /\ Len(tg.outbox) = 2
              /\ tg.outbox[2].api = "sendMessage"
              /\ tg.outbox[2].buttons =
                    <<<<"approve", "payment", IdText(tg.arg.order, "id")>>,
                      <<"reject", "payment", IdText(tg.arg.order, "id")>>>>
              /\ tg.result = BoolStr(tg.outbox[2].outcome = "ok_true")

============================================================================
